---- MODULE Spec2Model ----
(***************************************************************************)
(* Model of the WSS Node SDK dispatch middleware (src/src/middleware.ts):  *)
(* createWssFromRequest, wssMiddleware, wssErrorMiddleware and wssPubSub,  *)
(* together with the Express chain and the pub/sub handler they call.      *)
(*                                                                         *)
(* JavaScript values are tagged records [t |-> type, v |-> value]; an      *)
(* object is a function from property names to values.  The errors array   *)
(* of the inbound event lives in the variable heap, and every shallow copy *)
(* of the event holds a reference to it, as the spread in wss.event()      *)
(* copies the reference and not the array.  Strings that the code splits   *)
(* or that a claim searches are sequences of tokens.                       *)
(***************************************************************************)
EXTENDS Naturals, Sequences, FiniteSets, TLC

\* Longest errors sequence an inbound event carries.
MaxErrors == 2

\* Most calls of stopPropagation on one event object.
MaxStops == 2

\* Most headers, besides the protocol's own, on a request whose attributes
\* are parsed.
MaxHeaders == 2

\* Most calls of wss.dispatch in one handler.
MaxDispatches == 2

-----------------------------------------------------------------------------
\* Names exported by ./http (the file is not part of the sources at hand).
\* Header and attribute names are token strings, as the code searches them.
HeaderWssEvent == <<"x-wss-event">>
HeaderWssVersion == <<"x-wss-version">>
HeaderWssAttrib == <<"X-WSS-Attrib">>
JsonEventKey == "event"
JsonReturnTopic == <<"returnTopic">>
JsonPluginVersion == "pluginVersion"

ManifestEventName == "system.MANIFEST"

-----------------------------------------------------------------------------
\* JavaScript values.
Undefined == [t |-> "undefined"]
Null == [t |-> "null"]
Str(s) == [t |-> "string", v |-> s]
Bool(b) == [t |-> "boolean", v |-> b]
Fn(name) == [t |-> "function", v |-> name]
Obj(f) == [t |-> "object", v |-> f]
\* A reference to the array held in heap.
ArrRef == [t |-> "array", v |-> "heap"]
\* An array as it stands in JSON text: its elements inline.
List(s) == [t |-> "list", v |-> s]

\* The object with no property.
EmptyObj == [k \in {} |-> Undefined]

\* o[k], undefined when o has no property k.
Get(o, k) == IF k \in DOMAIN o THEN o[k] ELSE Undefined

\* o with o[k] = val (the property is created when missing).
Put(o, k, val) == [x \in DOMAIN o \cup {k} |-> IF x = k THEN val ELSE o[x]]

\* An Error object of the given class and message.
Err(name, message) == [name |-> name, message |-> message]

\* err.stack: the class, the message and the frames.
Stack(err) == <<err.name, ": ", err.message, "\n    at ">>

\* error.toString(): the class and the message.
ErrToString(err) == <<err.name, ": ", err.message>>

\* Whether token tok occurs in the token string s.
Contains(s, tok) == \E i \in 1..Len(s) : s[i] = tok

-----------------------------------------------------------------------------
\* JSON.stringify of a value, with the array in h: properties that hold a
\* function or undefined are dropped, the array is written out.
RECURSIVE ToJSON(_, _)
ToJSON(val, h) ==
  IF val.t = "object"
  THEN Obj([k \in {x \in DOMAIN val.v : val.v[x].t \notin {"function", "undefined"}}
              |-> ToJSON(val.v[k], h)])
  ELSE IF val.t = "array" THEN List(h)
  ELSE val

\* JSON.parse of a JSON value: objects are built property by property, an
\* array is allocated on the heap and the object holds its reference.
RECURSIVE FromJSON(_)
FromJSON(wire) ==
  IF wire.t = "object"
  THEN Obj([k \in DOMAIN wire.v |-> FromJSON(wire.v[k])])
  ELSE IF wire.t = "list" THEN ArrRef
  ELSE wire

\* The contents of the array that FromJSON(wire) allocates (the event's
\* errors, the one array of an envelope), empty when there is none.
HeapOf(wire) ==
  IF wire.t = "object" /\ Get(wire.v, JsonEventKey).t = "object"
     /\ Get(wire.v[JsonEventKey].v, "errors").t = "list"
  THEN wire.v[JsonEventKey].v["errors"].v
  ELSE <<>>

\* s.split(sep): the segments of token string s between the separators.
RECURSIVE SplitFrom(_, _, _, _)
SplitFrom(s, sep, i, cur) ==
  IF i > Len(s) THEN <<cur>>
  ELSE IF s[i] = sep THEN <<cur>> \o SplitFrom(s, sep, i + 1, <<>>)
  ELSE SplitFrom(s, sep, i + 1, Append(cur, s[i]))

Split(s, sep) == SplitFrom(s, sep, 1, <<>>)

\* The i-th element of a destructured array, undefined past its end.
Nth(segs, i) == IF i <= Len(segs) THEN Str(segs[i]) ELSE Undefined

\* s.split(sep, limit): at most limit segments, the rest is dropped.
SplitLimit(s, sep, limit) ==
  LET all == Split(s, sep)
  IN SubSeq(all, 1, IF Len(all) < limit THEN Len(all) ELSE limit)

\* s.toLowerCase() on the tokens the headers are written with.
ToLowerCase(s) == [i \in 1..Len(s) |-> IF s[i] = "X-WSS-Attrib" THEN "x-wss-attrib" ELSE s[i]]

\* s.indexOf(prefix) === 0
StartsWith(s, prefix) == Len(s) >= Len(prefix) /\ SubSeq(s, 1, Len(prefix)) = prefix

\* A headers (or message attributes) object: its keys in insertion order,
\* which is the order of Object.keys, and the value at each key.
NoHeaders == [keys |-> <<>>, at |-> EmptyObj]

\* headers with headers[k] = val, unless val is undefined.
WithHeader(headers, k, val) ==
  IF val = Undefined THEN headers
  ELSE [keys |-> IF k \in DOMAIN headers.at THEN headers.keys ELSE Append(headers.keys, k),
        at |-> Put(headers.at, k, val)]

\* headers[k], req.header(k)
Header(headers, k) == Get(headers.at, k)

\* JavaScript truthiness of a header or attribute value.
Falsy(val) == val.t \in {"undefined", "null"} \/ (val.t = "string" /\ val.v = <<>>)

-----------------------------------------------------------------------------
\* The plugin manifests the middleware is configured with.
MakeManifest(name, version, path) ==
  Obj([k \in {"manifestVersion", "name", "subsystem", "description", "version",
              "subscriptions"} |->
        CASE k = "manifestVersion" -> Str("1.0")
          [] k = "name" -> Str(name)
          [] k = "subsystem" -> Str("payments")
          [] k = "description" -> Str("")
          [] k = "version" -> Str(version)
          [] k = "subscriptions" ->
               Obj([e \in {"payment.PAYMENT_QUERY"} |-> Str(path)])])

Manifests ==
  { MakeManifest("CyberSourceIntegrationHttp", "1.0", "/payment-query"),
    MakeManifest("CyberSourceIntegration", "2.3", "payments-cybersource") }

\* Inbound data.
EventNames == {ManifestEventName, "payment.PAYMENT_QUERY"}
CorrelationIds == {<<"1234">>, <<"5678">>}
PriorErrorTexts == {<<"e0">>, <<"e1">>}
PriorErrors == UNION {[1..n -> PriorErrorTexts] : n \in 0..MaxErrors}

\* o with property k, unless val is undefined.
With(o, k, val) == IF val = Undefined THEN o ELSE Put(o, k, val)

WireEvent(name, errs, stopped, token) ==
  Obj(With(With(With(Put(Put(EmptyObj, "name", Str(name)), "action", Str("token")),
                     "errors", errs),
                "isPropagationStopped", stopped),
           "token", token))

WireEvents ==
  { WireEvent(n, er, st, tk) :
      n \in EventNames,
      er \in {Undefined} \cup {List(s) : s \in PriorErrors},
      st \in {Undefined, Bool(FALSE), Bool(TRUE)},
      tk \in {Undefined, Str("old")} }

\* The envelope: the event under the envelope key, next to the plugin version.
WirePayload(ev) == Obj(With(Put(EmptyObj, JsonPluginVersion, Str("1.0")), JsonEventKey, ev))

WirePayloads == { WirePayload(ev) : ev \in WireEvents \cup {Undefined} }

\* A request body: already parsed by a body parser (typeof 'object', null
\* included), or text, which may not be JSON at all.
NotJson == [t |-> "notjson"]
Bodies ==
  { [typeof |-> ty, json |-> w] : ty \in {"object", "string"}, w \in WirePayloads \cup {Null} }
  \cup { [typeof |-> "string", json |-> NotJson] }

\* The headers of a request: the correlation header (when there is one), then
\* the others in the order given, as pairs <<key, value>>.
RECURSIVE AddHeaders(_, _)
AddHeaders(headers, pairs) ==
  IF pairs = <<>> THEN headers
  ELSE AddHeaders(WithHeader(headers, pairs[1][1], Str(pairs[1][2])), Tail(pairs))

RequestHeaders(corr, pairs) == AddHeaders(WithHeader(NoHeaders, HeaderWssEvent, corr), pairs)

\* The attributes of a message: correlation id and return address (when
\* there), then the others in the order given.
MessageAttributes(corr, rt, pairs) ==
  AddHeaders(WithHeader(WithHeader(NoHeaders, HeaderWssEvent, corr), JsonReturnTopic, rt),
             pairs)

\* The attribute headers of the repository's test request.
TestAttribHeaders ==
  << << <<"x-wss-attrib", "-foo">>, <<"foo", ":", "bar">> >>,
     << <<"x-wss-attrib", "-bar">>, <<"bar", ":", "foo">> >> >>

\* Header keys and values a request may carry besides the protocol's own:
\* keys with the attribute prefix, without it, and with it past the start;
\* values with one colon, with two, and with none, and the two attributes
\* the logger is made from.
OtherHeaderKeys ==
  { <<"x-wss-attrib", "-foo">>, <<"x-wss-attrib", "-bar">>, <<"content-type">>,
    <<"x-forwarded-", "x-wss-attrib", "-foo">> }
OtherHeaderValues ==
  { <<"foo", ":", "bar">>, <<"bar", ":", "foo">>, <<"foo", ":", "a", ":", "b">>, <<"plain">>,
    <<"sessionId", ":", "12345">>, <<"clubId", ":", "club-9">> }

\* Lists of up to MaxHeaders headers with different keys.
HeaderLists ==
  { l \in UNION { [1..n -> OtherHeaderKeys \X OtherHeaderValues] : n \in 0..MaxHeaders } :
      \A i, j \in 1..Len(l) : i # j => l[i][1] # l[j][1] }

\* Attribute keys and values a message may carry besides the protocol's own:
\* keys with the prefix as the constant spells it, in lower case, and without
\* it; values with a colon and without.
OtherAttributeKeys ==
  { <<"X-WSS-Attrib", "-", "foo">>, <<"x-wss-attrib", "-", "foo">>,
    <<"x-wss-attrib", ":", "bar">>, <<"googclient_", "x-wss-attrib", "-", "foo">> }
OtherAttributeValues == { <<"bar">>, <<"foo", ":", "bar">>, <<"a", ":", "b", ":", "c">> }

\* Lists of up to MaxHeaders attributes with different keys.
AttributeLists ==
  { l \in UNION { [1..n -> OtherAttributeKeys \X OtherAttributeValues] : n \in 0..MaxHeaders } :
      \A i, j \in 1..Len(l) : i # j => l[i][1] # l[j][1] }

\* What the plugin's handler does when it is called.
HttpHandlers == {"silent", "setToken", "stop", "respond", "throw", "respondLater", "throwLater"}
PubSubHandlers == {"silent", "setToken", "stop", "throw", "throwLater"}

\* The handlers that return a promise and do their work after they returned.
AsyncHandlers == {"respondLater", "throwLater"}

\* Return addresses: apiEndpoint/projectId/topic, and malformed ones.
ReturnTopics ==
  { Undefined, Str(<<>>),
    Str(<<"localhost:8085", "/", "wss-project", "/", "wss-return">>),
    Str(<<"pubsub.example", "/", "other-project", "/", "return-b">>),
    Str(<<"localhost:8085", "/", "wss-project">>) }

\* How the pub/sub client answers a publish.
PublishOutcomes == {"ok", "throw", "reject"}

-----------------------------------------------------------------------------
VARIABLES
  manifest,     \* the manifest given to wssMiddleware / wssPubSub
  pc,           \* where the invocation stands
  ret,          \* where control goes when the called handler chain returns
  req,          \* the Express request: headers and body
  res,          \* the Express response: headersSent, statusCode, headers, sent
  message,      \* the pub/sub message: json and attributes
  wss,          \* the context (req.wss, or wssPubSub's wss); undefined before
  heap,         \* the errors array of the inbound event
  handler,      \* what the plugin's handler does in this invocation
  hEvent,       \* the event the handler obtained from wss.event()
  e,            \* wssPubSub's local e
  err,          \* the error travelling down the Express error chain
  thrown,       \* what the pub/sub handler threw, if it did
  nextCalls,    \* the arguments of wssMiddleware's calls of next
  handlerCalls, \* how often the plugin's handler was called
  upstream,     \* the errors wssErrorMiddleware passed to next
  published,    \* the calls of publishJSON
  logs,         \* the logger calls
  result,       \* how the adapter's own call ended
  errResult,    \* how wssErrorMiddleware's call ended
  late,         \* how the promise of an asynchronous handler settled
  other,        \* a second invocation in flight, while it does not run
  dispatches    \* the events the plugin's handler passes to wss.dispatch

vars == <<manifest, pc, ret, req, res, message, wss, heap, handler, hEvent, e, err,
          thrown, nextCalls, handlerCalls, upstream, published, logs, result, errResult,
          late, other, dispatches>>

NoReq == [headers |-> NoHeaders, body |-> [typeof |-> "undefined", json |-> Undefined]]
NoRes == [headersSent |-> FALSE, statusCode |-> 200, headers |-> EmptyObj, sent |-> <<>>]
NoMessage == [json |-> Undefined, attributes |-> NoHeaders]
NoErr == Err("", "")
Pending == [kind |-> "pending"]

\* The state between invocations: nothing of an invocation is kept.
Idle ==
  /\ pc = "idle"
  /\ ret = "done"
  /\ req = NoReq
  /\ res = NoRes
  /\ message = NoMessage
  /\ wss = Undefined
  /\ heap = <<>>
  /\ handler = "silent"
  /\ hEvent = Undefined
  /\ e = Undefined
  /\ err = NoErr
  /\ thrown = NoErr
  /\ nextCalls = <<>>
  /\ handlerCalls = 0
  /\ upstream = <<>>
  /\ published = <<>>
  /\ logs = <<>>
  /\ result = Pending
  /\ errResult = Pending
  /\ late = Pending
  /\ dispatches = <<>>

\* An invocation that has not begun, as a record.
IdleState(m) ==
  [pc |-> "idle", ret |-> "done", req |-> NoReq, res |-> NoRes, message |-> NoMessage,
   wss |-> Undefined, heap |-> <<>>, handler |-> "silent", hEvent |-> Undefined,
   e |-> Undefined, err |-> NoErr, thrown |-> NoErr, nextCalls |-> <<>>,
   handlerCalls |-> 0, upstream |-> <<>>, published |-> <<>>, logs |-> <<>>,
   result |-> Pending, errResult |-> Pending, late |-> Pending, other |-> Undefined,
   dispatches |-> <<>>, manifest |-> m]

Init == manifest \in Manifests /\ Idle /\ other = IdleState(manifest)

-----------------------------------------------------------------------------
\* const [k, v] = headers[key].split(':', 2); attributes[k] = v
AttributeEntry(attributes, key, value) ==
  LET kv == SplitLimit(value, ":", 2)
  IN Put(attributes, kv[1], Nth(kv, 2))

\* The forEach over Object.keys(headers) from the i-th key on.
RECURSIVE ParseAttributesFrom(_, _, _)
ParseAttributesFrom(headers, i, attributes) ==
  IF i > Len(headers.keys) THEN attributes
  ELSE LET key == headers.keys[i]
       IN ParseAttributesFrom(headers, i + 1,
            IF StartsWith(key, ToLowerCase(HeaderWssAttrib))
            THEN AttributeEntry(attributes, key, headers.at[key].v)
            ELSE attributes)

ParseAttributes(headers) == ParseAttributesFrom(headers, 1, EmptyObj)

\* a || b
Or(a, b) == IF Falsy(a) THEN b ELSE a

\* new Logger(contextId, clubId, source): the constructor's parameters in the
\* order they are declared; the two levels play no part here.
NewLogger(contextId, clubId, source) ==
  [contextId |-> contextId, clubId |-> clubId, source |-> source]

\* createWssFromRequest: the context over the decoded payload.  Reading
\* data[JsonPluginVersion] fails when data is null.
CreateWssFromRequest(data, headers, m) ==
  LET attributes == ParseAttributes(headers)
  IN [t |-> "wss", data |-> data, manifest |-> m,
      attributes |-> attributes,
      logger |-> NewLogger(Str(<<m.v["name"].v>>),
                           Or(Get(attributes, <<"sessionId">>), Str(<<"noContext">>)),
                           Or(Get(attributes, <<"clubId">>), Str(<<"noClub">>))),
      dispatch |-> Fn("dispatch"),
      pluginVersion |-> Get(data.v, JsonPluginVersion)]

\* Mutant of EventCopy: only the fields IEvent declares are copied.
EventCopyDeclaredOnly(w) ==
  LET ev == w.data.v[JsonEventKey].v
  IN Obj(Put([k \in DOMAIN ev \cap {"name", "errors", "isPropagationStopped"} |-> ev[k]],
             "stopPropagation", Fn("stopPropagation")))

\* wss.event(): a shallow copy of data[JsonEventKey] with stopPropagation
\* added; the caller checks first that the event is there.
EventCopy(w) == Obj(Put(w.data.v[JsonEventKey].v, "stopPropagation", Fn("stopPropagation")))

\* Whether wss.event() throws: the payload has no envelope key.
EventMissing(w) == Get(w.data.v, JsonEventKey) = Undefined

MissingEventError == Err("Error", "This endpoint does not return an event.")

\* new Event(name): errors is a new empty array (the heap starts empty with
\* it), the flag is false.
NewEvent(name) ==
  Obj([k \in {"name", "errors", "isPropagationStopped", "stopPropagation"} |->
        CASE k = "name" -> Str(name)
          [] k = "errors" -> ArrRef
          [] k = "isPropagationStopped" -> Bool(FALSE)
          [] OTHER -> Fn("stopPropagation")])

\* Mutant of StopPropagation: the flag is flipped.
StopPropagationToggle(ev) ==
  Obj(Put(ev.v, "isPropagationStopped",
          Bool(Get(ev.v, "isPropagationStopped") # Bool(TRUE))))

\* e.stopPropagation(): sets the flag on the copy it was created on.
StopPropagation(ev) == Obj(Put(ev.v, "isPropagationStopped", Bool(TRUE)))

\* res.header / res.setHeader.
SetHeader(r, name, val) == [r EXCEPT !.headers = Put(@, name, val)]

\* res.json(body): the body is serialised now and the response goes out with
\* the status and headers set so far.
SendJson(r, by, body, h) ==
  [r EXCEPT !.headersSent = TRUE,
            !.sent = Append(@, [by |-> by, status |-> r.statusCode,
                                headers |-> r.headers, body |-> ToJSON(body, h)])]

\* { [JsonEventKey]: value }
Envelope(value) == Obj(Put(EmptyObj, JsonEventKey, value))

\* logger.error / logger.debug on the state record s.
Log(s, level, what) == [s EXCEPT !.logs = Append(@, [level |-> level, what |-> what])]

\* The state of the invocation as a record, and the step that installs one.
State ==
  [pc |-> pc, ret |-> ret, req |-> req, res |-> res, message |-> message, wss |-> wss,
   heap |-> heap, handler |-> handler, hEvent |-> hEvent, e |-> e, err |-> err,
   thrown |-> thrown, nextCalls |-> nextCalls, handlerCalls |-> handlerCalls,
   upstream |-> upstream, published |-> published, logs |-> logs, result |-> result,
   errResult |-> errResult, late |-> late, other |-> other, dispatches |-> dispatches,
   manifest |-> manifest]

Becomes(s) ==
  /\ pc' = s.pc
  /\ ret' = s.ret
  /\ req' = s.req
  /\ res' = s.res
  /\ message' = s.message
  /\ wss' = s.wss
  /\ heap' = s.heap
  /\ handler' = s.handler
  /\ hEvent' = s.hEvent
  /\ e' = s.e
  /\ err' = s.err
  /\ thrown' = s.thrown
  /\ nextCalls' = s.nextCalls
  /\ handlerCalls' = s.handlerCalls
  /\ upstream' = s.upstream
  /\ published' = s.published
  /\ logs' = s.logs
  /\ result' = s.result
  /\ errResult' = s.errResult
  /\ late' = s.late
  /\ other' = s.other
  /\ dispatches' = s.dispatches
  /\ manifest' = s.manifest

Resolved(val) == [kind |-> "resolved", value |-> val]
Rejected(error) == [kind |-> "rejected", error |-> error]
Returned(val) == [kind |-> "returned", value |-> val]
Threw(error) == [kind |-> "threw", error |-> error]

JsonSyntaxError == Err("SyntaxError", "Unexpected token in JSON")
NullTypeError == Err("TypeError", "Cannot read properties of null")
UndefinedTypeError == Err("TypeError", "Cannot read properties of undefined")
BodyEventNotFound == Err("Error", "Body event not found in request.")
MissingReturnTopic == Err("Error", "Request missing returnTopic")
PublishError == Err("Error", "publish failed")
HandlerError == Err("Error", "boom")
HeadersSentError == Err("Error", "Cannot set headers after they are sent to the client")

-----------------------------------------------------------------------------
\* An HTTP request arrives at the Express app with the given headers; sent0
\* when an earlier stage has answered already.
HttpRequest(headers, sent0, body, h) ==
  /\ pc = "idle"
  /\ Becomes([State EXCEPT
       !.pc = "wssMiddleware",
       !.req = [headers |-> headers, body |-> body],
       !.res = IF sent0
               THEN [NoRes EXCEPT !.headersSent = TRUE,
                                  !.sent = <<[by |-> "earlier", status |-> 200,
                                              headers |-> EmptyObj, body |-> Null]>>]
               ELSE NoRes,
       !.heap = IF body.typeof = "object" THEN HeapOf(body.json) ELSE <<>>,
       !.handler = h])

\* Mutant of EchoHeaders: the correlation header is forgotten.
EchoHeadersNoId(r, messageId, m) == SetHeader(r, HeaderWssVersion, m.v["version"])

\* Mutant of EchoHeaders: the version header is forgotten.
EchoHeadersNoVersion(r, messageId, m) == SetHeader(r, HeaderWssEvent, messageId)

\* res.header(HeaderWssEvent, messageId); res.header(HeaderWssVersion, version).
EchoHeaders(r, messageId, m) ==
  SetHeader(SetHeader(r, HeaderWssEvent, messageId), HeaderWssVersion, m.v["version"])

\* Mutant of IsManifestRequest: the reserved name is never recognised.
IsManifestRequestNever(data) == FALSE

\* data[JsonEventKey].name === ManifestEventName
IsManifestRequest(data) == Get(data.v[JsonEventKey].v, "name") = Str(ManifestEventName)

\* Mutant of IsPassThrough: a response sent earlier is not looked at.
IsPassThroughHeaderOnly(messageId, r) == Falsy(messageId)

\* !req.header(HeaderWssEvent) || res.headersSent
IsPassThrough(messageId, r) == Falsy(messageId) \/ r.headersSent

\* Mutant of ArrayPush: the entry is put in front.
ArrayUnshift(h, text) == <<text>> \o h

\* errors.push(text): the entry goes to the end of the array.
ArrayPush(h, text) == Append(h, text)

\* next() and next(err) as wssMiddleware calls them: Express runs the route
\* handler, or the error chain, before next returns.
CallNext(s, error, after) ==
  [s EXCEPT !.nextCalls = Append(@, error),
            !.err = error,
            !.pc = IF error = NoErr THEN "handler" ELSE "wssErrorMiddleware",
            !.ret = after]

\* wssMiddleware from its entry to the call of next (or its early return).
WssMiddlewareEnter(s) ==
  LET body == s.req.body
      data == FromJSON(body.json)
      messageId == Header(s.req.headers, HeaderWssEvent)
      s1 == [s EXCEPT !.wss = CreateWssFromRequest(data, s.req.headers, s.manifest),
                      !.heap = HeapOf(body.json)]
  IN
  IF body.typeof # "object" /\ body.json = NotJson
  THEN [CallNext(s, JsonSyntaxError, "done") EXCEPT !.result = Resolved(Undefined)]
  ELSE IF data = Null
  THEN [s EXCEPT !.result = Rejected(NullTypeError), !.pc = "done"]
  ELSE IF IsPassThrough(messageId, s.res)
  THEN [CallNext(s1, NoErr, "done") EXCEPT !.result = Resolved(Undefined)]
  ELSE IF Get(data.v, JsonEventKey) = Undefined
  THEN [CallNext(Log(s1, "error", "Body event not found in request."),
                 BodyEventNotFound, "done")
          EXCEPT !.result = Resolved(Undefined)]
  ELSE IF IsManifestRequest(data)
  THEN LET s2 == Log(s1, "debug", "Returning") IN
       [s2 EXCEPT
          !.res = SendJson(EchoHeaders(s2.res, messageId, s.manifest),
                           "wssMiddleware", Envelope(s.manifest), s2.heap),
          !.result = Resolved(Undefined),
          !.pc = "done"]
  ELSE CallNext(s1, NoErr, "wssMiddlewareReturn")

\* Mutant of AlreadySent: the response is taken for unsent.
AlreadySentNever(r) == FALSE

\* res.headersSent
AlreadySent(r) == r.headersSent

\* wssMiddleware after next() has returned: the automatic response.
WssMiddlewareReturn(s) ==
  LET messageId == Header(s.req.headers, HeaderWssEvent)
      ev == EventCopy(s.wss)
      s1 == Log(s, "debug", "Returning")
  IN
  IF ~AlreadySent(s.res)
  THEN [s1 EXCEPT
          !.res = SendJson(EchoHeaders(s.res, messageId, s.manifest),
                           "wssMiddleware", Envelope(ev), s.heap),
          !.result = Resolved(Undefined),
          !.pc = "done"]
  ELSE [s EXCEPT !.result = Resolved(Undefined), !.pc = "done"]

\* The plugin's route handler (app.post): it may fetch the event and change
\* it, answer by itself, or throw; Express passes what it throws to the
\* error chain.
\* Mutant of Dispatch: the event is sent on.
DispatchPublishes(s, ev) == [s EXCEPT !.published = Append(@, ev)]

\* wss.dispatch(ev): the function's body is empty.
Dispatch(s, ev) == s

\* The handler's calls of wss.dispatch, one after the other.
RECURSIVE DispatchAll(_, _)
DispatchAll(s, evs) ==
  IF evs = <<>> THEN s ELSE DispatchAll(Dispatch(s, Head(evs)), Tail(evs))

RouteHandler(s0) ==
  LET s == DispatchAll(s0, s0.dispatches)
      s1 == [s EXCEPT !.handlerCalls = @ + 1]
      fetches == s.handler \in {"setToken", "stop"}
      ev == EventCopy(s.wss)
      fails(error) == [s1 EXCEPT !.err = error, !.pc = "wssErrorMiddleware"]
  IN
  IF fetches /\ EventMissing(s.wss) THEN fails(MissingEventError)
  ELSE IF s.handler = "setToken"
  THEN [s1 EXCEPT !.hEvent = Obj(Put(ev.v, "token", Str("123456"))), !.pc = s.ret]
  ELSE IF s.handler = "stop"
  THEN [s1 EXCEPT !.hEvent = StopPropagation(ev), !.pc = s.ret]
  ELSE IF s.handler = "respond" /\ ~s.res.headersSent
  THEN [s1 EXCEPT !.res = SendJson(s.res, "handler", Obj(EmptyObj), s.heap), !.pc = s.ret]
  ELSE IF s.handler = "throw" THEN fails(HandlerError)
  ELSE [s1 EXCEPT !.pc = s.ret]

\* wssErrorMiddleware, installed last in the chain.
WssErrorMiddlewareRun(s) ==
  LET messageId == Header(s.req.headers, HeaderWssEvent)
      back == [s EXCEPT !.pc = s.ret]
      ev == EventCopy(s.wss)
  IN
  IF IsPassThrough(messageId, s.res)
  THEN [back EXCEPT !.upstream = Append(@, s.err), !.errResult = Resolved(Undefined)]
  ELSE IF s.wss = Undefined
  THEN [back EXCEPT !.errResult = Rejected(UndefinedTypeError)]
  ELSE IF EventMissing(s.wss)
  THEN [back EXCEPT !.errResult = Rejected(MissingEventError)]
  ELSE IF Get(ev.v, "errors") = Undefined
  THEN [back EXCEPT !.errResult = Rejected(UndefinedTypeError)]
  ELSE LET s1 == Log([back EXCEPT !.heap = ArrayPush(@, Stack(s.err))], "error", "stack")
           r1 == [s.res EXCEPT !.statusCode = 500]
           r2 == EchoHeaders(r1, messageId, s.wss.manifest)
       IN [s1 EXCEPT !.res = SendJson(r2, "wssErrorMiddleware", Envelope(ev), s1.heap),
                     !.upstream = Append(@, s.err),
                     !.errResult = Resolved(Undefined)]

\* An asynchronous handler was called and its promise has not settled.
HandlerUnsettled(s) ==
  s.handler \in AsyncHandlers /\ s.handlerCalls = 1 /\ s.late = Pending

\* The rest of an asynchronous handler, which runs when the adapter's own
\* synchronous code is through: it fails, or it answers with res.json, which
\* throws on a response that is sent already.  In pub/sub pass-through the
\* adapter returned this very promise.
HandlerSettles(s) ==
  IF s.handler = "throwLater"
  THEN [s EXCEPT !.late = Rejected(HandlerError),
                 !.result = IF s.result = Pending THEN Rejected(HandlerError) ELSE @]
  ELSE IF s.res.headersSent
  THEN [s EXCEPT !.late = Rejected(HeadersSentError)]
  ELSE [s EXCEPT !.res = SendJson(s.res, "handler", Obj(EmptyObj), s.heap),
                 !.late = Resolved(Undefined)]

WssMiddleware == pc = "wssMiddleware" /\ Becomes(WssMiddlewareEnter(State))

Handler == pc = "handler" /\ Becomes(RouteHandler(State))

WssErrorMiddleware == pc = "wssErrorMiddleware" /\ Becomes(WssErrorMiddlewareRun(State))

WssMiddlewareResume == pc = "wssMiddlewareReturn" /\ Becomes(WssMiddlewareReturn(State))

\* The invocation is over and its context is discarded.
Complete == pc = "done" /\ ~HandlerUnsettled(State) /\ Becomes([State EXCEPT !.pc = "idle", !.ret = "done", !.req = NoReq,
  !.res = NoRes, !.message = NoMessage, !.wss = Undefined, !.heap = <<>>,
  !.handler = "silent", !.hEvent = Undefined, !.e = Undefined, !.err = NoErr,
  !.thrown = NoErr, !.nextCalls = <<>>, !.handlerCalls = 0, !.upstream = <<>>,
  !.published = <<>>, !.logs = <<>>, !.result = Pending, !.errResult = Pending,
  !.late = Pending, !.dispatches = <<>>])

-----------------------------------------------------------------------------
\* A pub/sub message arrives at the function wssPubSub returned, with the
\* given attributes.
PubSubMessage(attributes, payload, h) ==
  /\ pc = "idle"
  /\ Becomes([State EXCEPT
       !.pc = "wssPubSub",
       !.message = [json |-> payload, attributes |-> attributes],
       !.handler = h])

\* Mutant of PublishAttributes: the correlation id is left out.
PublishAttributesNoId(messageId, m) == Put(EmptyObj, HeaderWssVersion, m.v["version"])

\* The attributes of the outbound message: correlation id and manifest version.
PublishAttributes(messageId, m) ==
  Put(Put(EmptyObj, HeaderWssEvent, messageId), HeaderWssVersion, m.v["version"])

\* Mutant of OnMissingReturnTopic: the error is logged and the handler called.
MissingReturnTopicIgnored(s) ==
  [Log(s, "error", "Request missing returnTopic") EXCEPT !.pc = "func", !.ret = "done"]

\* The return address is missing: log and throw.
OnMissingReturnTopic(s) ==
  [Log(s, "error", "Request missing returnTopic")
     EXCEPT !.result = Threw(MissingReturnTopic), !.pc = "done"]

\* publish(values) and what the adapter returns for it: the call of
\* publishJSON on the topic split off the return address; a synchronous
\* failure is caught and logged, a promise is returned as it is.
Publish(s, values, out) ==
  LET messageId == Header(s.message.attributes, HeaderWssEvent)
      segs == Split(Header(s.message.attributes, JsonReturnTopic).v, "/")
      call == [apiEndpoint |-> Nth(segs, 1), projectId |-> Nth(segs, 2),
               topic |-> Nth(segs, 3),
               json |-> ToJSON(Envelope(values), s.heap),
               attributes |-> PublishAttributes(messageId, s.manifest),
               outcome |-> out]
      s1 == [Log(s, "debug", "Returning") EXCEPT !.published = Append(@, call),
                                                 !.pc = "done"]
  IN
  IF out = "throw"
  THEN [Log(s1, "error", "publish") EXCEPT !.result = Returned(Undefined)]
  ELSE IF out = "reject"
  THEN [s1 EXCEPT !.result = Rejected(PublishError)]
  ELSE [s1 EXCEPT !.result = Resolved(Str("published"))]

\* Mutant of IsNonEventMessage: every message is taken for an event message.
IsNonEventMessageNever(attributes) == FALSE

\* message.attributes[HeaderWssEvent] === undefined
IsNonEventMessage(attributes) == Header(attributes, HeaderWssEvent) = Undefined

\* wssPubSub's function from its entry to the call of func.
\* Mutant of OnMissingEvent: the message goes to the handler as it is.
MissingEventToHandler(s) == [s EXCEPT !.pc = "func", !.ret = "done"]

\* json[JsonEventKey].name with json[JsonEventKey] undefined: the read throws
\* a TypeError out of wssPubSub's function.
OnMissingEvent(s) == [s EXCEPT !.result = Threw(UndefinedTypeError), !.pc = "done"]

WssPubSubEnter(s, out) ==
  LET json == FromJSON(s.message.json)
      attributes == s.message.attributes
      s1 == Log([s EXCEPT !.wss = CreateWssFromRequest(json, attributes, s.manifest),
                          !.heap = HeapOf(s.message.json)],
                "debug", "Received")
  IN
  IF IsNonEventMessage(attributes)
  THEN [s1 EXCEPT !.pc = "func", !.ret = "done"]
  ELSE IF Falsy(Header(attributes, JsonReturnTopic))
  THEN OnMissingReturnTopic(s1)
  ELSE IF Get(json.v, JsonEventKey) = Undefined
  THEN OnMissingEvent(s1)
  ELSE IF IsManifestRequest(json)
  THEN Publish(s1, s.manifest, out)
  ELSE [s1 EXCEPT !.e = EventCopy(s1.wss), !.pc = "func", !.ret = "wssPubSubReturn"]

\* The plugin's pub/sub handler func(message, context, wss).
Func(s0) ==
  LET s == DispatchAll(s0, s0.dispatches)
      s1 == [s EXCEPT !.handlerCalls = @ + 1]
      fetches == s.handler \in {"setToken", "stop"}
      ev == EventCopy(s.wss)
      ends(error) ==
        IF s.ret = "done"
        THEN [s1 EXCEPT !.pc = "done",
                        !.result = IF error # NoErr THEN Threw(error)
                                   ELSE IF s.handler \in AsyncHandlers THEN Pending
                                   ELSE Returned(Str("func result"))]
        ELSE [s1 EXCEPT !.pc = s.ret, !.thrown = error]
  IN
  IF fetches /\ EventMissing(s.wss) THEN ends(MissingEventError)
  ELSE IF s.handler = "setToken"
  THEN [ends(NoErr) EXCEPT !.hEvent = Obj(Put(ev.v, "token", Str("123456")))]
  ELSE IF s.handler = "stop"
  THEN [ends(NoErr) EXCEPT !.hEvent = StopPropagation(ev)]
  ELSE IF s.handler = "throw" THEN ends(HandlerError)
  ELSE ends(NoErr)

\* wssPubSub's function after func: the catch block and the publish.
WssPubSubReturn(s, out) ==
  IF s.thrown = NoErr THEN Publish(s, s.e, out)
  ELSE IF Get(s.e.v, "errors") = Undefined
  THEN [s EXCEPT !.result = Threw(UndefinedTypeError), !.pc = "done"]
  ELSE Publish(Log([s EXCEPT !.heap = ArrayPush(@, ErrToString(s.thrown))], "error", "handler"),
               s.e, out)

WssPubSub == pc = "wssPubSub" /\ \E out \in PublishOutcomes : Becomes(WssPubSubEnter(State, out))

PubSubHandler == pc = "func" /\ Becomes(Func(State))

WssPubSubResume ==
  pc = "wssPubSubReturn" /\ \E out \in PublishOutcomes : Becomes(WssPubSubReturn(State, out))

\* The promise of an asynchronous handler settles.
HandlerLater == pc = "done" /\ HandlerUnsettled(State) /\ Becomes(HandlerSettles(State))

HttpArrival ==
  /\ pc = "idle"
  /\ \E corr \in {Undefined} \cup {Str(c) : c \in CorrelationIds}, sent0 \in BOOLEAN,
        body \in Bodies, h \in HttpHandlers :
          HttpRequest(RequestHeaders(corr, TestAttribHeaders), sent0, body, h)

PubSubArrival ==
  /\ pc = "idle"
  /\ \E corr \in {Undefined} \cup {Str(c) : c \in CorrelationIds}, rt \in ReturnTopics,
        payload \in WirePayloads, h \in PubSubHandlers :
          PubSubMessage(MessageAttributes(corr, rt, <<>>), payload, h)

Next ==
  \/ HttpArrival
  \/ WssMiddleware
  \/ Handler
  \/ WssErrorMiddleware
  \/ WssMiddlewareResume
  \/ PubSubArrival
  \/ WssPubSub
  \/ PubSubHandler
  \/ WssPubSubResume
  \/ HandlerLater
  \/ Complete

Spec == Init /\ [][Next]_vars

\* Requests that differ in their headers only: the body of the repository's
\* test, a handler that returns, with and without the correlation header.
HeadersArrival ==
  /\ pc = "idle"
  /\ \E corr \in {Undefined, Str(<<"1234">>)}, pairs \in HeaderLists :
        HttpRequest(RequestHeaders(corr, pairs), FALSE,
                    [typeof |-> "object",
                     json |-> WirePayload(WireEvent("payment.PAYMENT_QUERY", Undefined,
                                                    Undefined, Undefined))],
                    "silent")

\* Messages that differ in their attributes only.
AttributesArrival ==
  /\ pc = "idle"
  /\ \E corr \in {Undefined, Str(<<"1234">>)}, pairs \in AttributeLists :
        PubSubMessage(MessageAttributes(corr,
                        Str(<<"localhost:8085", "/", "wss-project", "/", "wss-return">>),
                        pairs),
                      WirePayload(WireEvent("payment.PAYMENT_QUERY", Undefined,
                                            Undefined, Undefined)),
                      "silent")

NextAttributes ==
  \/ HeadersArrival
  \/ WssMiddleware
  \/ Handler
  \/ WssMiddlewareResume
  \/ AttributesArrival
  \/ WssPubSub
  \/ PubSubHandler
  \/ WssPubSubResume
  \/ Complete

SpecAttributes == Init /\ [][NextAttributes]_vars

\* Plugin code that makes an event object and uses it: new Event(name), or
\* wss.event() on the context over a payload, then stopPropagation any
\* number of times.
NewEventCall ==
  /\ pc = "idle"
  /\ \E name \in EventNames :
        Becomes([State EXCEPT !.pc = "event", !.hEvent = NewEvent(name), !.heap = <<>>])

WssEventCall ==
  /\ pc = "idle"
  /\ \E payload \in WirePayloads :
        LET w == CreateWssFromRequest(FromJSON(payload), NoHeaders, manifest)
            s1 == [State EXCEPT !.pc = "event", !.wss = w, !.heap = HeapOf(payload),
                                !.message = [json |-> payload, attributes |-> NoHeaders]]
        IN Becomes(IF EventMissing(w)
                   THEN [s1 EXCEPT !.result = Threw(MissingEventError)]
                   ELSE [s1 EXCEPT !.hEvent = EventCopy(w)])

StopPropagationCall ==
  /\ pc = "event" /\ hEvent # Undefined /\ handlerCalls < MaxStops
  /\ Becomes([State EXCEPT !.hEvent = StopPropagation(hEvent), !.handlerCalls = @ + 1])

\* The plugin code is through with the object.
EventDone == pc = "event" /\ Becomes([State EXCEPT !.pc = "done"])

NextEvent ==
  \/ NewEventCall
  \/ WssEventCall
  \/ StopPropagationCall
  \/ EventDone
  \/ Complete

SpecEvent == Init /\ [][NextEvent]_vars

\* Mutant of Resume: the context is kept in one place for all invocations.
ResumeSharedContext(o, s) ==
  [o EXCEPT !.wss = s.wss, !.manifest = s.manifest, !.other = [s EXCEPT !.other = Undefined]]

\* The event loop turns from invocation s to invocation o: req, res, the
\* context and every local belong to the call they were made in, the
\* manifest is the one object both were configured with.
Resume(o, s) == [o EXCEPT !.manifest = s.manifest, !.other = [s EXCEPT !.other = Undefined]]

Switch == (pc # "idle" \/ other.pc # "idle") /\ Becomes(Resume(other, State))

\* Two kinds of invocation with different correlation ids, payloads and
\* attributes.
TwoKinds ==
  { [corr |-> Str(<<"1234">>),
     payload |-> WirePayload(WireEvent("payment.PAYMENT_QUERY", List(<<>>), Undefined,
                                       Str("old"))),
     pairs |-> TestAttribHeaders],
    [corr |-> Str(<<"5678">>),
     payload |-> WirePayload(WireEvent("payment.PAYMENT_QUERY", List(<<<<"e0">>>>),
                                       Bool(FALSE), Undefined)),
     pairs |-> << << <<"x-wss-attrib", "-sessionid">>, <<"sessionId", ":", "12345">> >> >>] }

TwoHandlers == {"setToken", "throw", "throwLater"}

HttpArrivalTwo ==
  /\ pc = "idle"
  /\ \E k \in TwoKinds, h \in TwoHandlers :
        HttpRequest(RequestHeaders(k.corr, k.pairs), FALSE,
                    [typeof |-> "object", json |-> k.payload], h)

PubSubArrivalTwo ==
  /\ pc = "idle"
  /\ \E k \in TwoKinds, h \in TwoHandlers :
        PubSubMessage(MessageAttributes(k.corr,
                        Str(<<"localhost:8085", "/", "wss-project", "/", "wss-return">>),
                        k.pairs),
                      k.payload, h)

NextTwo ==
  \/ HttpArrivalTwo
  \/ PubSubArrivalTwo
  \/ WssMiddleware
  \/ Handler
  \/ WssErrorMiddleware
  \/ WssMiddlewareResume
  \/ WssPubSub
  \/ PubSubHandler
  \/ WssPubSubResume
  \/ HandlerLater
  \/ Switch
  \/ Complete

SpecTwo == Init /\ [][NextTwo]_vars

\* Events a handler may pass to wss.dispatch: a new one, one whose
\* propagation was stopped, the one it was called with.
DispatchEvents ==
  { NewEvent("payments.QUERY"),
    StopPropagation(NewEvent("payments.QUERY")),
    Obj(Put(NewEvent("payment.PAYMENT_QUERY").v, "token", Str("123456"))) }

DispatchLists == UNION { [1..n -> DispatchEvents] : n \in 0..MaxDispatches }

DispatchHandlers == {"silent", "setToken", "throw"}

\* A request whose handler calls req.wss.dispatch with each event of evs
\* before its own work.
HttpArrivalDispatch ==
  /\ pc = "idle"
  /\ \E k \in TwoKinds, h \in DispatchHandlers, evs \in DispatchLists :
        Becomes([State EXCEPT
          !.pc = "wssMiddleware",
          !.req = [headers |-> RequestHeaders(k.corr, k.pairs),
                   body |-> [typeof |-> "object", json |-> k.payload]],
          !.heap = HeapOf(k.payload),
          !.handler = h,
          !.dispatches = evs])

PubSubArrivalDispatch ==
  /\ pc = "idle"
  /\ \E k \in TwoKinds, h \in DispatchHandlers, evs \in DispatchLists :
        Becomes([State EXCEPT
          !.pc = "wssPubSub",
          !.message = [json |-> k.payload,
                       attributes |-> MessageAttributes(k.corr,
                         Str(<<"localhost:8085", "/", "wss-project", "/", "wss-return">>),
                         k.pairs)],
          !.handler = h,
          !.dispatches = evs])

NextDispatch ==
  \/ HttpArrivalDispatch
  \/ PubSubArrivalDispatch
  \/ WssMiddleware
  \/ Handler
  \/ WssErrorMiddleware
  \/ WssMiddlewareResume
  \/ WssPubSub
  \/ PubSubHandler
  \/ WssPubSubResume
  \/ Complete

SpecDispatch == Init /\ [][NextDispatch]_vars

-----------------------------------------------------------------------------
\* The invocation at hand, as the claims speak of it.
InHttp == req.body.typeof # "undefined"
InPubSub == message.json # Undefined
CorrId == Header(req.headers, HeaderWssEvent)
AnsweredEarlier == res.sent # <<>> /\ res.sent[1].by = "earlier"
HttpEventMode == InHttp /\ CorrId # Undefined /\ ~AnsweredEarlier
BodyHasEvent == req.body.json.t = "object" /\ JsonEventKey \in DOMAIN req.body.json.v
InboundEvent == req.body.json.v[JsonEventKey]
HttpEventRequest ==
  HttpEventMode /\ BodyHasEvent /\ InboundEvent.v["name"] # Str(ManifestEventName)
HttpManifestRequest ==
  HttpEventMode /\ BodyHasEvent /\ InboundEvent.v["name"] = Str(ManifestEventName)

MessageId == Header(message.attributes, HeaderWssEvent)
ReturnTopic == Header(message.attributes, JsonReturnTopic)
MessageHasEvent == InPubSub /\ JsonEventKey \in DOMAIN message.json.v
MessageEvent == message.json.v[JsonEventKey]
PubSubEventMode == InPubSub /\ MessageId # Undefined /\ ~Falsy(ReturnTopic)
PubSubEventMessage ==
  PubSubEventMode /\ MessageHasEvent /\ MessageEvent.v["name"] # Str(ManifestEventName)
PubSubManifestMessage ==
  PubSubEventMode /\ MessageHasEvent /\ MessageEvent.v["name"] = Str(ManifestEventName)

\* C1: in HTTP event mode with a non-manifest event and a handler that returns
\* without answering, wssMiddleware calls next once, with no error, no response
\* goes out before the handler has run, and at the end exactly one response has
\* been sent, by wssMiddleware, with the inbound correlation id and the manifest
\* version as headers and the event under the envelope key.
C1_NormalPath ==
  (HttpEventRequest /\ handler \in {"silent", "setToken", "stop"}) =>
    /\ handlerCalls <= 1
    /\ res.sent # <<>> => handlerCalls = 1
    /\ pc = "done" =>
         /\ nextCalls = <<NoErr>>
         /\ handlerCalls = 1
         /\ Len(res.sent) = 1
         /\ res.sent[1].by = "wssMiddleware"
         /\ Get(res.sent[1].headers, HeaderWssEvent) = CorrId
         /\ Get(res.sent[1].headers, HeaderWssVersion) = manifest.v["version"]
         /\ DOMAIN res.sent[1].body.v = {JsonEventKey}
         /\ res.sent[1].body.v[JsonEventKey].t = "object"
         /\ res.sent[1].body.v[JsonEventKey].v["name"] = InboundEvent.v["name"]
         /\ res.sent[1].body.v[JsonEventKey].v["action"] = Str("token")

C1_Witness ==
  /\ HttpEventRequest /\ handler = "silent" /\ pc = "done"
  /\ Len(res.sent) = 1 /\ res.sent[1].by = "wssMiddleware"
  /\ CorrId = Str(<<"1234">>)

\* C2: in HTTP event mode, a field the handler set on the event it got from
\* req.wss.event() is in the event of the automatic response.
C2_HandlerMutationReachesResponse ==
  (HttpEventRequest /\ handler \in {"setToken", "stop"} /\ pc = "done") =>
    /\ Len(res.sent) = 1
    /\ res.sent[1].body.v[JsonEventKey] = ToJSON(hEvent, heap)

\* C3: in pub/sub event mode, when the handler stopped propagation on the
\* event it got from wss.event(), the published event has isPropagationStopped
\* true.
C3_StopPropagationReachesPublish ==
  (PubSubEventMessage /\ handler = "stop" /\ pc = "done") =>
    /\ Len(published) = 1
    /\ hEvent.v["isPropagationStopped"] = Bool(TRUE)
    /\ Get(published[1].json.v[JsonEventKey].v, "isPropagationStopped")
         = hEvent.v["isPropagationStopped"]

\* C4: in HTTP event mode, for an event named system.MANIFEST the handler is
\* never called, next is never called, and exactly one response is sent: status
\* 200, the inbound correlation id and the manifest version as headers, the
\* manifest under the envelope key.
C4_HttpManifest ==
  HttpManifestRequest =>
    /\ handlerCalls = 0
    /\ nextCalls = <<>>
    /\ pc = "done" =>
         /\ Len(res.sent) = 1
         /\ res.sent[1].by = "wssMiddleware"
         /\ Get(res.sent[1].headers, HeaderWssEvent) = CorrId
         /\ Get(res.sent[1].headers, HeaderWssVersion) = manifest.v["version"]
         /\ res.sent[1].body = Obj([k \in {JsonEventKey} |-> manifest])

C4_Witness ==
  /\ HttpManifestRequest /\ handler = "throw" /\ pc = "done"
  /\ Len(res.sent) = 1 /\ res.sent[1].body.v[JsonEventKey] = manifest

\* The return address has the form apiEndpoint/projectId/topic.
WellFormed(rt) == Len(SelectSeq(rt.v, LAMBDA tok : tok = "/")) = 2

\* C5: in pub/sub event mode, for an event named system.MANIFEST the handler
\* is never called and exactly one publish is made: the manifest under the
\* envelope key, the inbound correlation id and the manifest version as
\* attributes, on the topic that ends the return address.
C5_PubSubManifest ==
  PubSubManifestMessage =>
    /\ handlerCalls = 0
    /\ Len(published) <= 1
    /\ pc = "done" =>
         /\ Len(published) = 1
         /\ published[1].json = Obj([k \in {JsonEventKey} |-> manifest])
         /\ DOMAIN published[1].attributes = {HeaderWssEvent, HeaderWssVersion}
         /\ published[1].attributes[HeaderWssEvent] = MessageId
         /\ published[1].attributes[HeaderWssVersion] = manifest.v["version"]
         /\ WellFormed(ReturnTopic) =>
              ReturnTopic.v = published[1].apiEndpoint.v \o <<"/">>
                              \o published[1].projectId.v \o <<"/">> \o published[1].topic.v

C5_Witness ==
  /\ PubSubManifestMessage /\ pc = "done" /\ handler = "throw"
  /\ Len(published) = 1 /\ published[1].topic = Str(<<"wss-return">>)
  /\ published[1].outcome = "ok"

\* The errors the inbound event came with.
InboundErrors == InboundEvent.v["errors"].v
HttpEventWithErrors == HttpEventRequest /\ "errors" \in DOMAIN InboundEvent.v

\* C6: when wssErrorMiddleware has run for an event-mode request whose event
\* has an errors sequence, the sequence is the inbound one followed by the
\* error's stack, one response was sent, with status 500, the inbound
\* correlation id and the manifest version as headers and the event with these
\* errors as body, and next was called once, with the same error.
C6_ErrorStage ==
  (HttpEventWithErrors /\ errResult # Pending) =>
    /\ errResult = Resolved(Undefined)
    /\ heap = InboundErrors \o <<Stack(err)>>
    /\ Len(res.sent) = 1
    /\ res.sent[1].by = "wssErrorMiddleware"
    /\ res.sent[1].status = 500
    /\ Get(res.sent[1].headers, HeaderWssEvent) = CorrId
    /\ Get(res.sent[1].headers, HeaderWssVersion) = manifest.v["version"]
    /\ res.sent[1].body =
         Obj([k \in {JsonEventKey} |->
               Obj(Put(InboundEvent.v, "errors", List(InboundErrors \o <<Stack(err)>>)))])
    /\ upstream = <<err>>

C6_Witness ==
  /\ HttpEventWithErrors /\ errResult # Pending /\ Len(InboundErrors) = 2
  /\ err = HandlerError /\ Len(heap) = 3 /\ res.sent[1].status = 500

\* Some entry of the errors of JSON event ev contains the token tok.
ErrorsMention(ev, tok) ==
  /\ Get(ev.v, "errors").t = "list"
  /\ \E i \in 1..Len(ev.v["errors"].v) : Contains(ev.v["errors"].v[i], tok)

\* C7: in HTTP event mode with a non-manifest event, with or without an errors
\* field, when the handler throws "boom" the caller gets a response with status
\* 500 whose event.errors has an entry containing "boom".
C7_HandlerFailureAnswered ==
  (HttpEventRequest /\ handler = "throw" /\ pc = "done") =>
    \E i \in 1..Len(res.sent) :
      /\ res.sent[i].status = 500
      /\ ErrorsMention(res.sent[i].body.v[JsonEventKey], "boom")

\* The errors the message's event came with, none when it has no such field.
MessageErrors ==
  IF "errors" \in DOMAIN MessageEvent.v THEN MessageEvent.v["errors"].v ELSE <<>>

\* C8: in pub/sub event mode with a non-manifest event, when the handler
\* throws, the invocation does not throw, and the event is published with the
\* inbound errors followed by exactly one new entry.
C8_PubSubErrorCapture ==
  (PubSubEventMessage /\ handler = "throw" /\ pc = "done") =>
    /\ result.kind # "threw"
    /\ Len(published) = 1
    /\ Get(published[1].json.v[JsonEventKey].v, "errors").t = "list"
    /\ LET errors == published[1].json.v[JsonEventKey].v["errors"].v IN
         /\ Len(errors) = Len(MessageErrors) + 1
         /\ SubSeq(errors, 1, Len(MessageErrors)) = MessageErrors

\* C9: a message with the correlation attribute and no return address makes
\* the adapter throw; the handler is never called and nothing is published.
C9_MissingReturnAddress ==
  (InPubSub /\ MessageId # Undefined /\ ReturnTopic = Undefined) =>
    /\ handlerCalls = 0
    /\ published = <<>>
    /\ pc \in {"wssPubSub", "done"}
    /\ pc = "done" => result = Threw(MissingReturnTopic)

C9_Witness ==
  /\ InPubSub /\ MessageId # Undefined /\ ReturnTopic = Undefined
  /\ MessageHasEvent /\ handler = "throw"
  /\ pc = "done" /\ result.kind = "threw"

HttpPassThrough == InHttp /\ (CorrId = Undefined \/ AnsweredEarlier)

\* What wssMiddleware does in pass-through mode: the context is on the
\* request, next was called once with no error, and no header, no status and
\* no body was set by the SDK.
PassedThrough ==
  /\ wss # Undefined
  /\ nextCalls = <<NoErr>>
  /\ res.headers = EmptyObj
  /\ res.statusCode = 200
  /\ \A i \in 1..Len(res.sent) : res.sent[i].by \in {"earlier", "handler"}

\* C10 as amended: a request without the correlation header, or answered
\* before the middleware ran, whose body is an object or the JSON text of one,
\* is passed through.
C10_PassThrough ==
  (HttpPassThrough /\ req.body.json.t = "object" /\ pc # "wssMiddleware") => PassedThrough

C10_Witness ==
  /\ HttpPassThrough /\ AnsweredEarlier /\ CorrId # Undefined /\ pc = "done"
  /\ HttpManifestRequest = FALSE /\ BodyHasEvent
  /\ InboundEvent.v["name"] = Str(ManifestEventName)
  /\ handlerCalls = 1 /\ req.body.typeof = "string"

\* C10 as stated: every request without the correlation header, or answered
\* before the middleware ran, is passed through, whatever its body.
C10_PassThroughAnyBody ==
  (HttpPassThrough /\ pc # "wssMiddleware") => PassedThrough

\* C11: a pub/sub message without the correlation attribute is handed to the
\* handler once, with the raw message and the context over it; what the handler
\* returns or throws is the adapter's result, nothing is published, and neither
\* a return address nor an event in the payload is asked for.
C11_PubSubPassThrough ==
  (InPubSub /\ MessageId = Undefined) =>
    /\ published = <<>>
    /\ handlerCalls <= 1
    /\ pc \in {"func", "done"} =>
         /\ wss.data = FromJSON(message.json)
         /\ e = Undefined
    /\ pc = "done" =>
         /\ handlerCalls = 1
         /\ result = IF handler \in {"setToken", "stop"} /\ ~MessageHasEvent
                      THEN Threw(MissingEventError)
                      ELSE IF handler = "throw" THEN Threw(HandlerError)
                      ELSE IF handler = "throwLater"
                      THEN IF late = Pending THEN Pending ELSE Rejected(HandlerError)
                      ELSE Returned(Str("func result"))

C11_Witness ==
  /\ InPubSub /\ MessageId = Undefined /\ pc = "done"
  /\ Falsy(ReturnTopic) /\ ~MessageHasEvent
  /\ handlerCalls = 1 /\ result = Returned(Str("func result"))

\* C12: when wssErrorMiddleware has run for a request without the correlation
\* header, or for one answered before the middleware ran, it has called next
\* once with the error it was given, has set no status, no header and no body,
\* and has left the event's errors as they arrived.
C12_ErrorStagePassThrough ==
  (InHttp /\ errResult # Pending /\ (CorrId = Undefined \/ AnsweredEarlier)) =>
    /\ errResult = Resolved(Undefined)
    /\ err # NoErr
    /\ upstream = <<err>>
    /\ res.statusCode = 200
    /\ res.headers = EmptyObj
    /\ \A i \in 1..Len(res.sent) : res.sent[i].by = "earlier"
    /\ heap = HeapOf(req.body.json)
    /\ logs = <<>>

C12_Witness ==
  /\ InHttp /\ CorrId # Undefined /\ AnsweredEarlier
  /\ BodyHasEvent /\ Get(InboundEvent.v, "errors") = List(<<>>)
  /\ handler = "throw" /\ errResult = Resolved(Undefined)
  /\ upstream = <<HandlerError>> /\ Len(res.sent) = 1

\* The text right of the first sep in token string s.
RECURSIVE AfterFirst(_, _)
AfterFirst(s, sep) ==
  IF s = <<>> THEN <<>>
  ELSE IF s[1] = sep THEN Tail(s)
  ELSE AfterFirst(Tail(s), sep)

\* The prefixed headers of the request at hand whose value has a colon, by
\* position in the iteration order.
IsAttribHeader(i) ==
  /\ StartsWith(req.headers.keys[i], <<"x-wss-attrib">>)
  /\ Contains(req.headers.at[req.headers.keys[i]].v, ":")
AttribName(i) == Split(req.headers.at[req.headers.keys[i]].v, ":")[1]
AttribValue(i) == AfterFirst(req.headers.at[req.headers.keys[i]].v, ":")

\* C13: the attribute map of the context holds, for every prefixed header
\* with a value name:value, the name with everything right of the first colon
\* as its value (the last such header in iteration order when names repeat),
\* and holds nothing for a header without the prefix.
C13_AttributeParsing ==
  (InHttp /\ wss # Undefined) =>
    /\ \A i \in 1..Len(req.headers.keys) :
         (/\ IsAttribHeader(i)
          /\ \A j \in (i + 1)..Len(req.headers.keys) :
               ~(StartsWith(req.headers.keys[j], <<"x-wss-attrib">>)
                 /\ Split(req.headers.at[req.headers.keys[j]].v, ":")[1] = AttribName(i)))
         => Get(wss.attributes, AttribName(i)) = Str(AttribValue(i))
    /\ \A k \in DOMAIN wss.attributes :
         \E i \in 1..Len(req.headers.keys) :
           /\ StartsWith(req.headers.keys[i], <<"x-wss-attrib">>)
           /\ Split(req.headers.at[req.headers.keys[i]].v, ":")[1] = k

\* The event object plugin code holds, and its flag.
EventAlive == pc = "event" /\ hEvent # Undefined
Stopped == Get(hEvent.v, "isPropagationStopped")

\* C14: an event made by the constructor has the flag false; after one or
\* more calls of stopPropagation the flag is true, for constructor events and
\* for events wss.event() returned; and no step takes the flag of a living
\* event from true to another value.
C14_StopPropagationMonotonic ==
  [][ (pc' = "event" /\ hEvent' # Undefined) =>
        /\ (wss' = Undefined /\ handlerCalls' = 0) =>
              Get(hEvent'.v, "isPropagationStopped") = Bool(FALSE)
        /\ handlerCalls' >= 1 => Get(hEvent'.v, "isPropagationStopped") = Bool(TRUE)
        /\ (EventAlive /\ Stopped = Bool(TRUE)) =>
              Get(hEvent'.v, "isPropagationStopped") = Bool(TRUE) ]_vars

C14_Witness ==
  /\ EventAlive /\ wss # Undefined /\ handlerCalls = MaxStops
  /\ Get(MessageEvent.v, "isPropagationStopped") = Bool(FALSE)
  /\ Stopped = Bool(TRUE)

\* The event plugin code holds, as res.json or publishJSON would write it
\* under the envelope key.
EncodedEvent == ToJSON(Envelope(hEvent), heap)

\* C15: for a payload with an event, the event wss.event() returns, written
\* under the envelope key and read again, is the inbound event field by field
\* (name, errors, isPropagationStopped, extra fields), and the stopPropagation
\* function it carries is not in what is written; for a payload without the
\* envelope key wss.event() throws.
C15_EnvelopeRoundTrip ==
  (pc = "event" /\ wss # Undefined) =>
    IF ~MessageHasEvent
    THEN hEvent = Undefined /\ result = Threw(MissingEventError)
    ELSE /\ result = Pending
         /\ Get(hEvent.v, "stopPropagation").t = "function"
         /\ DOMAIN EncodedEvent.v = {JsonEventKey}
         /\ "stopPropagation" \notin DOMAIN EncodedEvent.v[JsonEventKey].v
         /\ handlerCalls = 0 =>
              /\ EncodedEvent.v[JsonEventKey] = MessageEvent
              /\ FromJSON(EncodedEvent) = Envelope(FromJSON(MessageEvent))
              /\ HeapOf(EncodedEvent) = HeapOf(message.json)

C15_Witness ==
  /\ pc = "event" /\ wss # Undefined /\ MessageHasEvent /\ handlerCalls = 0
  /\ Get(MessageEvent.v, "errors") = List(<<<<"e0">>, <<"e1">>>>)
  /\ Get(MessageEvent.v, "isPropagationStopped") = Bool(TRUE)
  /\ Get(MessageEvent.v, "token") = Str("old")
  /\ EncodedEvent.v[JsonEventKey] = MessageEvent

\* C16: for a request with the correlation header, whatever the handler does
\* (returns, answers by itself, throws, answers or fails after next() has
\* returned), middleware, handler and error stage together send at most one
\* response; and when the handler has answered before next() returns,
\* wssMiddleware sends none.
C16_AtMostOneResponse ==
  (InHttp /\ CorrId # Undefined) =>
    /\ Len(res.sent) <= 1
    /\ (handler = "respond" /\ handlerCalls = 1) =>
         \A i \in 1..Len(res.sent) : res.sent[i].by # "wssMiddleware"
    /\ (handler = "respondLater" /\ late # Pending /\ ~AnsweredEarlier) =>
         /\ late = Rejected(HeadersSentError)
         /\ res.sent[1].by = "wssMiddleware"

C16_Witness ==
  /\ HttpEventRequest /\ handler = "respond" /\ pc = "done" /\ result = Resolved(Undefined)
  /\ Len(res.sent) = 1 /\ res.sent[1].by = "handler"

\* C17: every response wssMiddleware or wssErrorMiddleware sends, and every
\* message wssPubSub publishes, carries the correlation id of the invocation
\* that produced it and the version of the manifest.
C17_CorrelationEcho ==
  /\ \A i \in 1..Len(res.sent) :
       res.sent[i].by \in {"wssMiddleware", "wssErrorMiddleware"} =>
         /\ CorrId # Undefined
         /\ Get(res.sent[i].headers, HeaderWssEvent) = CorrId
         /\ Get(res.sent[i].headers, HeaderWssVersion) = manifest.v["version"]
  /\ \A i \in 1..Len(published) :
       /\ MessageId # Undefined
       /\ Get(published[i].attributes, HeaderWssEvent) = MessageId
       /\ Get(published[i].attributes, HeaderWssVersion) = manifest.v["version"]

C17_Witness ==
  /\ HttpEventRequest /\ CorrId = Str(<<"5678">>) /\ manifest.v["version"] = Str("2.3")
  /\ Len(res.sent) = 1 /\ res.sent[1].by = "wssErrorMiddleware"
  /\ Get(res.sent[1].headers, HeaderWssEvent) = Str(<<"5678">>)
  /\ Get(res.sent[1].headers, HeaderWssVersion) = Str("2.3")

\* The handler of the invocation at hand was called and has failed, at once
\* or after it returned.
HandlerFailed ==
  /\ handlerCalls = 1
  /\ handler = "throw" \/ (handler = "throwLater" /\ late = Rejected(HandlerError))

\* C18: in event mode with a non-manifest event, in both adapters, when the
\* handler has failed (by throwing or by a promise that rejects) and the
\* invocation is over, a response has gone to the caller and it is the event
\* with errors that record the failure.
C18_FailureNeverSuppressesResponse ==
  /\ (HttpEventRequest /\ HandlerFailed /\ pc = "done") =>
       /\ Len(res.sent) = 1
       /\ ErrorsMention(res.sent[1].body.v[JsonEventKey], "boom")
  /\ (PubSubEventMessage /\ HandlerFailed /\ pc = "done") =>
       /\ Len(published) = 1
       /\ ErrorsMention(published[1].json.v[JsonEventKey], "boom")

\* C19: in pub/sub event mode, when the publish of the manifest or of the
\* event has failed, by a throw or by a promise that rejects, the failure is
\* in the error log and the invocation has neither thrown nor rejected.
C19_PublishFailureNonFatal ==
  (PubSubEventMode /\ pc = "done" /\ published # <<>>
     /\ published[Len(published)].outcome # "ok") =>
    /\ result.kind \notin {"threw", "rejected"}
    /\ \E i \in 1..Len(logs) : logs[i] = [level |-> "error", what |-> "publish"]

\* C20: for a request with the correlation header whose decoded body has no
\* envelope key, wssMiddleware has logged the error and called next once,
\* with it; the handler was not called and no response was sent; and the error
\* stage has passed that error on to the framework.
C20_MissingEventForwarded ==
  (HttpEventMode /\ req.body.json.t = "object" /\ ~BodyHasEvent /\ pc = "done") =>
    /\ \E i \in 1..Len(logs) : logs[i].level = "error"
    /\ nextCalls = <<BodyEventNotFound>>
    /\ handlerCalls = 0
    /\ res.sent = <<>>
    /\ upstream = <<BodyEventNotFound>>

\* C21: for a request whose body is text that does not parse, wssMiddleware
\* has called next once, with the parse error, has built no context, the
\* handler was not called, the SDK has sent nothing, and the error stage has
\* passed the parse error on to the framework, with or without the
\* correlation header.
C21_DecodeFailureForwarded ==
  (InHttp /\ req.body.json = NotJson /\ pc = "done") =>
    /\ nextCalls = <<JsonSyntaxError>>
    /\ wss = Undefined
    /\ handlerCalls = 0
    /\ \A i \in 1..Len(res.sent) : res.sent[i].by = "earlier"
    /\ upstream = <<JsonSyntaxError>>

\* C22: the logger of the context has the attribute sessionId as its context
\* identifier, or noContext without that attribute, the attribute clubId as
\* its club identifier, or noClub, and the manifest's name as its source.
C22_LoggerSeeding ==
  wss # Undefined =>
    /\ wss.logger.contextId =
         IF <<"sessionId">> \in DOMAIN wss.attributes
         THEN wss.attributes[<<"sessionId">>] ELSE Str(<<"noContext">>)
    /\ wss.logger.clubId =
         IF <<"clubId">> \in DOMAIN wss.attributes
         THEN wss.attributes[<<"clubId">>] ELSE Str(<<"noClub">>)
    /\ wss.logger.source = Str(<<manifest.v["name"].v>>)

\* The tokens of key right of its last dash or colon.
RECURSIVE LastSegment(_)
LastSegment(key) ==
  IF key = <<>> THEN <<>>
  ELSE IF Contains(Tail(key), "-") \/ Contains(Tail(key), ":") THEN LastSegment(Tail(key))
  ELSE IF key[1] \in {"-", ":"} THEN Tail(key)
  ELSE key

\* C23: for every attribute of the message whose key begins with the
\* attribute prefix as it is spelled, the attribute map of the context holds
\* the attribute's value as it is, under the last dash- or colon-delimited
\* segment of the key.
C23_PubSubAttributeParsing ==
  (InPubSub /\ wss # Undefined) =>
    \A i \in 1..Len(message.attributes.keys) :
      LET key == message.attributes.keys[i] IN
        StartsWith(key, HeaderWssAttrib) =>
          Get(wss.attributes, LastSegment(key)) = message.attributes.at[key]

\* C24: in event mode with a non-manifest event, in both adapters, the
\* automatic response (the envelope response of wssMiddleware, the publish of
\* the event) is not there before the handler was called and has finished,
\* also when it finishes after it returned.
C24_ResponseAfterHandler ==
  /\ (HttpEventRequest /\ \E i \in 1..Len(res.sent) : res.sent[i].by = "wssMiddleware") =>
       handlerCalls = 1 /\ ~HandlerUnsettled(State)
  /\ (PubSubEventMessage /\ published # <<>>) =>
       handlerCalls = 1 /\ ~HandlerUnsettled(State)

\* Invocation s as it stood when it arrived.
StartOf(s) ==
  [IdleState(s.manifest) EXCEPT
     !.pc = IF s.req.body.typeof # "undefined" THEN "wssMiddleware" ELSE "wssPubSub",
     !.req = s.req,
     !.message = s.message,
     !.handler = s.handler,
     !.heap = IF s.req.body.typeof = "object" THEN HeapOf(s.req.body.json) ELSE <<>>]

\* The next step of an invocation that runs with no other beside it, the
\* publish ending as out; an invocation that is over stays as it is.
StepAlone(s, out) ==
  CASE s.pc = "wssMiddleware" -> WssMiddlewareEnter(s)
    [] s.pc = "handler" -> RouteHandler(s)
    [] s.pc = "wssErrorMiddleware" -> WssErrorMiddlewareRun(s)
    [] s.pc = "wssMiddlewareReturn" -> WssMiddlewareReturn(s)
    [] s.pc = "wssPubSub" -> WssPubSubEnter(s, out)
    [] s.pc = "func" -> Func(s)
    [] s.pc = "wssPubSubReturn" -> WssPubSubReturn(s, out)
    [] s.pc = "done" /\ HandlerUnsettled(s) -> HandlerSettles(s)
    [] OTHER -> s

\* The states such an invocation goes through from s on.
RECURSIVE AloneFrom(_, _)
AloneFrom(s, out) ==
  IF StepAlone(s, out) = s THEN {s} ELSE {s} \cup AloneFrom(StepAlone(s, out), out)

\* Invocation s stands as it would, had it run alone on its own input.
AsAlone(s) ==
  \E out \in PublishOutcomes : [s EXCEPT !.other = Undefined] \in AloneFrom(StartOf(s), out)

\* C25: with two invocations in flight and their steps interleaved in any
\* order, each one, the running and the waiting, has the context, the
\* attributes, the event, the errors and the response or publish that it has
\* at the same point when it runs alone on its own input.
C25_InvocationIsolation ==
  /\ pc # "idle" => AsAlone(State)
  /\ other.pc # "idle" => AsAlone(other)

C25_Witness ==
  /\ pc = "done" /\ other.pc = "done"
  /\ InHttp /\ CorrId = Str(<<"1234">>) /\ handler = "throw"
  /\ Len(res.sent) = 1 /\ res.sent[1].by = "wssErrorMiddleware"
  /\ Get(wss.attributes, <<"foo">>) = Str(<<"bar">>)
  /\ Header(other.message.attributes, HeaderWssEvent) = Str(<<"5678">>)
  /\ other.handler = "setToken" /\ Len(other.published) = 1
  /\ Get(other.wss.attributes, <<"sessionId">>) = Str(<<"12345">>)


\* A pub/sub message in event mode, with a return address, whose payload has
\* no envelope key.
PubSubEventMissing ==
  /\ InPubSub
  /\ ~Falsy(Header(message.attributes, HeaderWssEvent))
  /\ ~Falsy(Header(message.attributes, JsonReturnTopic))
  /\ Get(FromJSON(message.json).v, JsonEventKey) = Undefined

\* C26: a pub/sub message with the correlation attribute and a return
\* address, whose payload has no envelope key, never reaches the handler and
\* nothing is published for it; once wssPubSub's function has run, the
\* invocation has failed with the error of reading the missing event.
C26_PubSubMissingEvent ==
  PubSubEventMissing =>
    /\ handlerCalls = 0
    /\ published = <<>>
    /\ pc \in {"wssPubSub", "done"}
    /\ pc = "done" => result = Threw(UndefinedTypeError)

C26_Witness ==
  /\ PubSubEventMissing
  /\ pc = "done"
  /\ result = Threw(UndefinedTypeError)
  /\ handlerCalls = 0 /\ published = <<>>
  /\ handler = "setToken"


====
